---------------------------- MODULE Spec2Model ----------------------------
(***************************************************************************)
(* A model of the degiro client (src/src/index.js): the session record,    *)
(* login, the read operations and the search -> check -> confirm order     *)
(* workflow of buy and sell.  Every public operation is a promise chain;   *)
(* a chain is modelled as a run that is suspended only while one of its    *)
(* fetch() calls is in flight.  The server is the environment: each        *)
(* response (or transport failure) is drawn from a small set.              *)
(***************************************************************************)
EXTENDS Integers, Sequences, FiniteSets

VARIABLES session, loginRun, opRun, twinRun, probe

vars == <<session, loginRun, opRun, twinRun, probe>>

(***************************************************************************)
(* JavaScript values.  A field that is absent from an object reads as      *)
(* undefined, so a decoded JSON object is a record whose absent fields     *)
(* hold Undef.                                                             *)
(***************************************************************************)
Undef == [type |-> "undefined"]
Null == [type |-> "null"]
Num(n) == [type |-> "number", num |-> n]
Str(s) == [type |-> "string", str |-> s]
Arr(items) == [type |-> "array", items |-> items]

\* A decoded JSON object is a record of its fields.
TypeOf(v) == IF "type" \in DOMAIN v THEN v.type ELSE "object"
IsArray(v) == TypeOf(v) = "array"

isNil(v) == v = Undef \/ v = Null

DigitChars == <<"0", "1", "2", "3", "4", "5", "6", "7", "8", "9">>

RECURSIVE NatToString(_)
NatToString(n) ==
    IF n < 10 THEN DigitChars[n + 1]
    ELSE NatToString(n \div 10) \o DigitChars[(n % 10) + 1]

\* ToString of a primitive, as a template literal `${v}` or Error(v) applies it.
ToString(v) ==
    CASE TypeOf(v) = "undefined" -> "undefined"
      [] TypeOf(v) = "null" -> "null"
      [] TypeOf(v) = "number" ->
            IF v.num < 0 THEN "-" \o NatToString(-v.num) ELSE NatToString(v.num)
      [] TypeOf(v) = "string" -> v.str
      [] OTHER -> "[object Object]"

\* !v for the values a cookie lookup can yield.
Falsy(v) == v = Undef \/ v = Null \/ v = Str("") \/ v = Num(0)

\* A parameter default `name = d` applies to undefined only.
Default(v, d) == IF v = Undef THEN d ELSE v

\* The result of a callback: a returned value or a thrown error.
Returned(v) == [ok |-> TRUE, value |-> v]
Thrown(e) == [ok |-> FALSE, error |-> e]

\* new Error(message): without a message the error's message is "",
\* otherwise it is ToString(message).
ErrorMessage(m) == IF m = Undef THEN "" ELSE ToString(m)

Error(site, m) == [name |-> "Error", site |-> site, message |-> ErrorMessage(m)]

\* What fetch() rejects with on a transport failure, and res.json() on a
\* body that is not JSON.
FetchError == [name |-> "FetchError", site |-> "fetch", message |-> "request failed"]
JsonError == [name |-> "FetchError", site |-> "res.json", message |-> "invalid json"]

\* obj.f: a field that is absent reads as undefined.
Get(obj, f) == IF f \in DOMAIN obj THEN obj[f] ELSE Undef

\* The settled state of a promise.
Pending == [state |-> "pending"]
Resolved(v) == [state |-> "resolved", value |-> v]
Rejected(e) == [state |-> "rejected", error |-> e]

(***************************************************************************)
(* create(): the credentials and the session record.                       *)
(***************************************************************************)
username == Str("user")
password == Str("secret")

Tokens == {"t1", "t2"}
Accounts == {7, 8}

\* session = {id: sessionId, account}: both come from the caller or the
\* environment, as strings, or are undefined.
create == [id : {Undef, Str("t0")}, account : {Undef, Str("5")}]

(***************************************************************************)
(* A run: the promise chain of one call.  pc names the fetch() in flight,  *)
(* reqs the requests the run has handed to fetch() and resps what came     *)
(* back for them, promise the state of the promise the call returned.      *)
(***************************************************************************)
IdleRun == [pc |-> "idle", reqs |-> <<>>, resps |-> <<>>, promise |-> Pending]

InFlight(run) == run.pc \notin {"idle", "settled"}

Json(body) == [kind |-> "json", body |-> body]
Failure(e) == [kind |-> "failure", error |-> e]

\* What fetch(), or res.json() after it, rejects with.
TransportFailures == {FetchError, JsonError}

Reject(run, resp, e) ==
    [run EXCEPT !.pc = "settled", !.resps = Append(@, resp), !.promise = Rejected(e)]

Resolve(run, resp, v) ==
    [run EXCEPT !.pc = "settled", !.resps = Append(@, resp), !.promise = Resolved(v)]

(***************************************************************************)
(* login                                                                   *)
(***************************************************************************)
LoginRequest ==
    [endpoint |-> "/login/securityCheck", method |-> "POST", redirect |-> "manual",
     body |-> <<<<"j_username", ToString(username)>>, <<"j_password", ToString(password)>>>>]

ClientRequest(s) ==
    [endpoint |-> "/pa/secure/client", method |-> "GET", sessionId |-> ToString(s.id)]

\* res.headers.get('set-cookie'): null when the response has no such
\* header, else the cookies it lists as <<name, value>> pairs.
SetCookie(cookies) == [type |-> "string", cookies |-> cookies]

SetCookieHeaders ==
    {Null, SetCookie(<<>>), SetCookie(<<<<"Path", "/">>>>), SetCookie(<<<<"JSESSIONID", "">>>>)}
    \cup {SetCookie(<<<<"JSESSIONID", t>>, <<"Path", "/">>>>) : t \in Tokens}
    \cup {SetCookie(<<<<"JSESSIONID", "t1">>, <<"JSESSIONID", "t2">>>>)}

\* parseCookies(header || '')[name]: the first cookie of that name, or
\* undefined.
parseCookies(h, name) ==
    LET cs == IF h = Null THEN <<>> ELSE h.cookies
        idx == {i \in 1..Len(cs) : cs[i][1] = name}
    IN IF idx = {} THEN Undef
       ELSE Str(cs[CHOOSE i \in idx : \A j \in idx : i <= j][2])

\* The first callback of login() without its test of session.id.
loginThenNoCheck(s, h) ==
    [session |-> [s EXCEPT !.id = parseCookies(h, "JSESSIONID")],
     result |-> Returned(Undef)]

\* The first callback of login(): stores the cookie's value as session.id
\* and throws when it is falsy.
loginThen(s, h) ==
    LET s1 == [s EXCEPT !.id = parseCookies(h, "JSESSIONID")]
    IN [session |-> s1,
        result |-> IF Falsy(s1.id) THEN Thrown(Error("login", Str("Login error")))
                   ELSE Returned(Undef)]

\* The decoded bodies of the profile response.
ClientBodies ==
    {[intAccount |-> Num(n)] : n \in Accounts} \cup {[id |-> Num(1)]}

\* The last callback of updateClientInfo(): ({intAccount}) => {...}.
updateClientInfoThen(s, body) == [s EXCEPT !.account = Get(body, "intAccount")]

\* What the most recent login that resolved obtained: the token of its
\* login response and the intAccount of its profile response; undefined
\* while no login has resolved.
LastResolved(run) ==
    IF run.promise.state = "resolved"
    THEN [id |-> parseCookies(run.resps[1], "JSESSIONID"),
          account |-> Get(run.resps[2].body, "intAccount")]
    ELSE Get(run, "last")

\* login() is called: the securityCheck request goes out.  atCall is the
\* session as the call found it, last what the logins before it obtained.
Login ==
    /\ ~InFlight(loginRun)
    /\ loginRun' = [pc |-> "securityCheck", reqs |-> <<LoginRequest>>, resps |-> <<>>,
                    promise |-> Pending, atCall |-> session,
                    last |-> LastResolved(loginRun)]
    /\ UNCHANGED <<session, opRun, twinRun, probe>>

\* fetch() of the securityCheck request rejects.
LoginTransportError ==
    /\ loginRun.pc = "securityCheck"
    /\ loginRun' = Reject(loginRun, Failure(FetchError), FetchError)
    /\ UNCHANGED <<session, opRun, twinRun, probe>>

\* The securityCheck response arrives: lines 104-111.
LoginResponse(E) ==
    /\ loginRun.pc = "securityCheck"
    /\ \E h \in E.setCookieHeaders :
        LET r == loginThen(session, h)
        IN /\ session' = r.session
           /\ IF r.result.ok
              THEN loginRun' = [loginRun EXCEPT
                                  !.pc = "client",
                                  !.resps = Append(@, h),
                                  !.reqs = Append(@, ClientRequest(r.session))]
              ELSE loginRun' = Reject(loginRun, h, r.result.error)
    /\ UNCHANGED <<opRun, twinRun, probe>>

\* fetch() of the profile request rejects, or its body is not JSON.
ClientFailure ==
    /\ loginRun.pc = "client"
    /\ \E e \in TransportFailures : loginRun' = Reject(loginRun, Failure(e), e)
    /\ UNCHANGED <<session, opRun, twinRun, probe>>

\* The profile response arrives: lines 86-88, then 112.  The promise
\* resolves to the session object itself.
ClientResponse(E) ==
    /\ loginRun.pc = "client"
    /\ \E body \in E.clientBodies :
        /\ session' = updateClientInfoThen(session, body)
        /\ loginRun' = Resolve(loginRun, Json(body), [ref |-> "session"])
    /\ UNCHANGED <<opRun, twinRun, probe>>

LoginNext(E) ==
    Login \/ LoginTransportError \/ LoginResponse(E) \/ ClientFailure \/ ClientResponse(E)

(***************************************************************************)
(* Objects written as literals are sequences of <<key, value>> pairs, in   *)
(* the order the literal lists its keys.                                   *)
(***************************************************************************)
\* omitBy(options, isNil)
omitByNil(pairs) == SelectSeq(pairs, LAMBDA kv : ~isNil(kv[2]))

\* querystring's rendering of a value: a string as it is, a number in
\* decimal, anything else as the empty string.
stringifyPrimitive(v) ==
    IF TypeOf(v) \in {"string", "number"} THEN ToString(v) ELSE ""

\* querystring.stringify(obj): one name=value parameter per key.
querystringStringify(pairs) ==
    [i \in 1..Len(pairs) |-> <<pairs[i][1], stringifyPrimitive(pairs[i][2])>>]

\* JSON.stringify(obj): the members of the object, without those whose
\* value is undefined.
JSONstringify(pairs) ==
    [type |-> "json", members |-> SelectSeq(pairs, LAMBDA kv : kv[2] # Undef)]

(***************************************************************************)
(* ./constants is not part of the sources; the values it exports are       *)
(* named after the specification's words for them.                         *)
(***************************************************************************)
ActionsBuy == Str("buy")
ActionsSell == Str("sell")
ProductTypesAll == Str("all")
ProductTypesShares == Str("shares")
TimeTypesDay == Str("day")

\* The default of searchProduct's limit.
DefaultLimit == 7
\* The default of searchProduct's offset.
DefaultOffset == 0
\* The status of a write response that succeeded.
StatusOk == 0

(***************************************************************************)
(* The request pipeline                                                    *)
(***************************************************************************)
\* checkSuccess with `!=` for `!==`: a status that converts to 0 passes.
checkSuccessLoose(res) ==
    IF Get(res, "status") \notin {Num(StatusOk), Str("0"), Str("")}
    THEN Thrown(Error("checkSuccess", Get(res, "message")))
    ELSE Returned(res)

\* checkSuccess(res): res itself, or a thrown Error(res.message).
checkSuccess(res) ==
    IF Get(res, "status") # Num(StatusOk)
    THEN Thrown(Error("checkSuccess", Get(res, "message")))
    ELSE Returned(res)

\* The request of getData(options).
getData(s, options) ==
    [endpoint |-> "/trading/secure/v5/update/", method |-> "GET",
     account |-> ToString(s.account), jsessionid |-> ToString(s.id),
     params |-> querystringStringify(options)]

\* The request of searchProduct(options).
\* searchProduct without omitBy(options, isNil).
searchProductKeepNil(s, o) ==
    LET options == <<
            <<"searchText", Get(o, "text")>>,
            <<"productType", Default(Get(o, "productType"), ProductTypesAll)>>,
            <<"sortColumn", Get(o, "sortColumn")>>,
            <<"sortType", Get(o, "sortType")>>,
            <<"limit", Default(Get(o, "limit"), Num(DefaultLimit))>>,
            <<"offset", Default(Get(o, "offset"), Num(DefaultOffset))>> >>
    IN [endpoint |-> "/product_search/secure/v4/product/lookup", method |-> "GET",
        intAccount |-> ToString(s.account), sessionId |-> ToString(s.id),
        params |-> querystringStringify(options)]

searchProduct(s, o) ==
    LET options == <<
            <<"searchText", Get(o, "text")>>,
            <<"productType", Default(Get(o, "productType"), ProductTypesAll)>>,
            <<"sortColumn", Get(o, "sortColumn")>>,
            <<"sortType", Get(o, "sortType")>>,
            <<"limit", Default(Get(o, "limit"), Num(DefaultLimit))>>,
            <<"offset", Default(Get(o, "offset"), Num(DefaultOffset))>> >>
    IN [endpoint |-> "/product_search/secure/v4/product/lookup", method |-> "GET",
        intAccount |-> ToString(s.account), sessionId |-> ToString(s.id),
        params |-> querystringStringify(omitByNil(options))]

\* checkOrder with the token where the account belongs.
checkOrderSwapped(s, order) ==
    [endpoint |-> "/trading/secure/v5/checkOrder", method |-> "POST",
     jsessionid |-> ToString(s.id), intAccount |-> ToString(s.id),
     sessionId |-> ToString(s.account), body |-> JSONstringify(order)]

\* The request of checkOrder(order).
checkOrder(s, order) ==
    [endpoint |-> "/trading/secure/v5/checkOrder", method |-> "POST",
     jsessionid |-> ToString(s.id), intAccount |-> ToString(s.account),
     sessionId |-> ToString(s.id), body |-> JSONstringify(order)]

\* checkOrder without its .then(checkSuccess).
checkOrderThenUnchecked(order, res) ==
    Returned([order |-> order, confirmationId |-> Get(res, "confirmationId")])

\* What checkOrder's promise settles to, given the decoded response.
checkOrderThen(order, res) ==
    LET r == checkSuccess(res)
    IN IF r.ok
       THEN Returned([order |-> order, confirmationId |-> Get(r.value, "confirmationId")])
       ELSE r

\* confirmOrder posting the order without its first member.
confirmOrderOtherBody(s, token) ==
    [endpoint |-> "/trading/secure/v5/order/", method |-> "POST",
     confirmationId |-> ToString(token.confirmationId),
     jsessionid |-> ToString(s.id), intAccount |-> ToString(s.account),
     sessionId |-> ToString(s.id), body |-> JSONstringify(Tail(token.order))]

\* confirmOrder reading a field the check step does not hand over.
confirmOrderLostId(s, token) ==
    [endpoint |-> "/trading/secure/v5/order/", method |-> "POST",
     confirmationId |-> ToString(Get(token, "confirmationID")),
     jsessionid |-> ToString(s.id), intAccount |-> ToString(s.account),
     sessionId |-> ToString(s.id), body |-> JSONstringify(token.order)]

\* The request of confirmOrder({order, confirmationId}).
confirmOrder(s, token) ==
    [endpoint |-> "/trading/secure/v5/order/", method |-> "POST",
     confirmationId |-> ToString(token.confirmationId),
     jsessionid |-> ToString(s.id), intAccount |-> ToString(s.account),
     sessionId |-> ToString(s.id), body |-> JSONstringify(token.order)]

\* confirmOrder without its .then(checkSuccess).
confirmOrderThenUnchecked(res) == Returned([orderId |-> Get(res, "orderId")])

\* What confirmOrder's promise settles to, given the decoded response.
confirmOrderThen(res) ==
    LET r == checkSuccess(res)
    IN IF r.ok THEN Returned([orderId |-> Get(r.value, "orderId")]) ELSE r

\* returnFirstProductResult without the length test: data[0] of an empty
\* array is undefined.
returnFirstUnchecked(result) ==
    LET data == Get(result, "data")
    IN IF IsArray(data)
       THEN Returned(IF Len(data.items) = 0 THEN Undef ELSE data.items[1])
       ELSE Thrown(Error("returnFirstProductResult", Str("Product not found")))

\* returnFirstProductResult(result)
returnFirstProductResult(result) ==
    LET data == Get(result, "data")
    IN IF IsArray(data) /\ Len(data.items) # 0
       THEN Returned(data.items[1])
       ELSE Thrown(Error("returnFirstProductResult", Str("Product not found")))

(***************************************************************************)
(* buy and sell: what each hands to searchProduct, and the order each      *)
(* hands to checkOrder for the product found.                              *)
(***************************************************************************)
buySearch(o) ==
    [text |-> Get(o, "productSymbol"),
     productType |-> Default(Get(o, "productType"), ProductTypesShares),
     limit |-> Num(1)]

buyOrder(o, product) == <<
    <<"buysell", ActionsBuy>>,
    <<"orderType", Get(o, "orderType")>>,
    <<"productId", Get(product, "id")>>,
    <<"size", Get(o, "size")>>,
    <<"timeType", Default(Get(o, "timeType"), TimeTypesDay)>>,
    <<"price", Get(o, "price")>>,
    <<"stopPrice", Get(o, "stopPrice")>> >>

sellSearch(o) ==
    [text |-> Get(o, "productSymbol"),
     productType |-> Default(Get(o, "productType"), ProductTypesShares),
     limit |-> Num(1)]

\* sell's order without the default of timeType.
sellOrderNoDefault(o, product) == <<
    <<"buysell", ActionsSell>>,
    <<"orderType", Get(o, "orderType")>>,
    <<"productId", Get(product, "id")>>,
    <<"size", Get(o, "size")>>,
    <<"timeType", Get(o, "timeType")>>,
    <<"price", Get(o, "price")>>,
    <<"stopPrice", Get(o, "stopPrice")>> >>

sellOrder(o, product) == <<
    <<"buysell", ActionsSell>>,
    <<"orderType", Get(o, "orderType")>>,
    <<"productId", Get(product, "id")>>,
    <<"size", Get(o, "size")>>,
    <<"timeType", Default(Get(o, "timeType"), TimeTypesDay)>>,
    <<"price", Get(o, "price")>>,
    <<"stopPrice", Get(o, "stopPrice")>> >>

\* A call of buy(o) or sell(o): the search request goes out.
OrderCall(s, op, o) ==
    [pc |-> "searching", op |-> op, opts |-> o,
     reqs |-> <<searchProduct(s, IF op = "buy" THEN buySearch(o) ELSE sellSearch(o))>>,
     resps |-> <<>>, promise |-> Pending]

\* A search step whose promise stays pending when no product was found.
OrderSearchedPending(run, s, result) ==
    LET first == returnFirstProductResult(result)
        order == IF run.op = "buy" THEN buyOrder(run.opts, first.value)
                 ELSE sellOrder(run.opts, first.value)
    IN IF first.ok
       THEN [pc |-> "checking", op |-> run.op, opts |-> run.opts,
             reqs |-> Append(run.reqs, checkOrder(s, order)),
             resps |-> Append(run.resps, Json(result)),
             promise |-> Pending, order |-> order]
       ELSE [run EXCEPT !.pc = "settled", !.resps = Append(@, Json(result))]

\* The decoded search response arrives: lines 204-205 (222-223), down to
\* checkOrder's fetch().
OrderSearched(run, s, result) ==
    LET first == returnFirstProductResult(result)
        order == IF run.op = "buy" THEN buyOrder(run.opts, first.value)
                 ELSE sellOrder(run.opts, first.value)
    IN IF first.ok
       THEN [pc |-> "checking", op |-> run.op, opts |-> run.opts,
             reqs |-> Append(run.reqs, checkOrder(s, order)),
             resps |-> Append(run.resps, Json(result)),
             promise |-> Pending, order |-> order]
       ELSE Reject(run, Json(result), first.error)

\* A check step that confirms with the session the run's search request
\* went out with.
OrderCheckedAtStart(run, s, res) ==
    LET checked == checkOrderThen(run.order, res)
        start == [id |-> Str(run.reqs[1].sessionId),
                  account |-> Str(run.reqs[1].intAccount)]
    IN IF checked.ok
       THEN [run EXCEPT !.pc = "confirming",
                        !.reqs = Append(@, confirmOrder(start, checked.value)),
                        !.resps = Append(@, Json(res))]
       ELSE Reject(run, Json(res), checked.error)

\* The decoded check response arrives: lines 155-156, then confirmOrder's
\* fetch().
OrderChecked(run, s, res) ==
    LET checked == checkOrderThen(run.order, res)
    IN IF checked.ok
       THEN [run EXCEPT !.pc = "confirming",
                        !.reqs = Append(@, confirmOrder(s, checked.value)),
                        !.resps = Append(@, Json(res))]
       ELSE Reject(run, Json(res), checked.error)

\* A confirm step that posts the order once more when it is refused.
OrderConfirmedRetry(run, res) ==
    LET confirmed == confirmOrderThen(res)
    IN IF confirmed.ok
       THEN Resolve(run, Json(res), confirmed.value)
       ELSE IF Len(run.reqs) = 3
            THEN [run EXCEPT !.reqs = Append(@, run.reqs[3]),
                             !.resps = Append(@, Json(res))]
            ELSE Reject(run, Json(res), confirmed.error)

\* The decoded confirm response arrives: lines 174-175.
OrderConfirmed(run, res) ==
    LET confirmed == confirmOrderThen(res)
    IN IF confirmed.ok
       THEN Resolve(run, Json(res), confirmed.value)
       ELSE Reject(run, Json(res), confirmed.error)

(***************************************************************************)
(* The account reader                                                      *)
(***************************************************************************)
TypeError == [name |-> "TypeError", site |-> "getCashFunds", message |-> "not a function"]

\* Error('Bad result: ' + JSON.stringify(data))
BadResult(site, data) ==
    [name |-> "Error", site |-> site, message |-> "Bad result: ", data |-> data]

\* fromPairs(value.map(({name, value}) => [name, value])): an object with
\* one key per name; of two pairs with one name the later one stays.
fromPairs(list) ==
    LET names == {ToString(Get(list[i], "name")) : i \in 1..Len(list)}
        last(n) == CHOOSE i \in 1..Len(list) :
                      /\ ToString(Get(list[i], "name")) = n
                      /\ \A j \in 1..Len(list) :
                            ToString(Get(list[j], "name")) = n => j <= i
    IN [n \in names |-> Get(list[last(n)], "value")]

\* omit(object, keys)
omit(object, keys) == [n \in DOMAIN object \ keys |-> object[n]]

\* The list of omitted keys with currencyCode forgotten.
OmittedKeysHandlingOnly == {"handling"}

OmittedKeys == {"handling", "currencyCode"}

\* The callback of getCashFunds(): lines 52-59.
getCashFundsThen(data) ==
    LET cashFunds == Get(data, "cashFunds")
    IN IF ~Falsy(cashFunds) /\ IsArray(Get(cashFunds, "value"))
       THEN LET entries == Get(cashFunds, "value").items
            IN IF \E i \in 1..Len(entries) : ~IsArray(Get(entries[i], "value"))
               THEN Thrown(TypeError)
               ELSE Returned([cashFunds |-> Arr(
                        [i \in 1..Len(entries) |->
                            omit(fromPairs(Get(entries[i], "value").items), OmittedKeys)])])
       ELSE Thrown(BadResult("getCashFunds", data))

\* The callback of getPortfolio(): lines 69-74.
getPortfolioThen(data) ==
    LET portfolio == Get(data, "portfolio")
    IN IF ~Falsy(portfolio) /\ IsArray(Get(portfolio, "value"))
       THEN Returned([portfolio |-> Get(portfolio, "value")])
       ELSE Thrown(BadResult("getPortfolio", data))

\* A call of one of the read operations: its one request goes out.
ReadCall(op, o, req) ==
    [pc |-> "fetching", op |-> op, opts |-> o, reqs |-> <<req>>, resps |-> <<>>,
     promise |-> Pending]

\* A read operation that passes its response through checkSuccess first.
ReadSettledChecked(run, data) ==
    LET c == checkSuccess(data)
        r == CASE ~c.ok -> c
               [] run.op = "getCashFunds" -> getCashFundsThen(data)
               [] run.op = "getPortfolio" -> getPortfolioThen(data)
               [] OTHER -> Returned(data)
    IN IF r.ok THEN Resolve(run, Json(data), r.value)
       ELSE Reject(run, Json(data), r.error)

\* The decoded response of a read operation arrives.
ReadSettled(run, data) ==
    LET r == CASE run.op = "getCashFunds" -> getCashFundsThen(data)
               [] run.op = "getPortfolio" -> getPortfolioThen(data)
               [] OTHER -> Returned(data)
    IN IF r.ok THEN Resolve(run, Json(data), r.value)
       ELSE Reject(run, Json(data), r.error)

(***************************************************************************)
(* The server and the caller.  An environment names the options the        *)
(* caller passes and the bodies the server answers with.                   *)
(***************************************************************************)
Product1 == [id |-> Str("X1"), symbol |-> Str("AAPL")]
Product2 == [id |-> Str("X2"), symbol |-> Str("AAPL.B")]

SearchBodies ==
    {[data |-> Arr(<<>>)], [data |-> Arr(<<Product1>>)],
     [data |-> Arr(<<Product2, Product1>>)],
     [data |-> Arr(<<Product1>>), status |-> Num(1), message |-> Str("denied")],
     [data |-> Str("none")],
     [status |-> Num(1), message |-> Str("denied")]}

CheckBodies ==
    {[status |-> Num(0), confirmationId |-> Str("c1")],
     [status |-> Num(0), confirmationId |-> Str("c2"), message |-> Str("ok")],
     [status |-> Num(0)],
     [status |-> Num(1), message |-> Str("insufficient funds")],
     [status |-> Num(3), message |-> Str("market closed"), confirmationId |-> Str("c1")],
     [status |-> Str("0"), message |-> Num(4), confirmationId |-> Str("c1")],
     [status |-> Num(1)],
     [errors |-> Str("no session")]}

ConfirmBodies ==
    {[status |-> Num(0), orderId |-> Str("o1")],
     [status |-> Num(0), orderId |-> Str("o2"), message |-> Str("ok")],
     [status |-> Num(0)],
     [status |-> Num(1), message |-> Str("insufficient funds")],
     [status |-> Num(3), message |-> Str("market closed"), orderId |-> Str("o1")],
     [status |-> Str("0"), message |-> Num(4), orderId |-> Str("o1")],
     [status |-> Num(1)],
     [errors |-> Str("no session")]}

Funds1 == [value |-> Arr(<<[name |-> Str("id"), value |-> Num(2)],
                           [name |-> Str("currencyCode"), value |-> Str("EUR")],
                           [name |-> Str("value"), value |-> Num(10)],
                           [name |-> Str("handling"), value |-> Num(1)]>>)]
Funds2 == [value |-> Arr(<<[name |-> Str("EUR"), value |-> Num(0)],
                           [name |-> Str("EUR"), value |-> Num(9)]>>)]
Position1 == [name |-> Str("positionrow"), id |-> Num(1)]

DataBodies ==
    {[cashFunds |-> [value |-> Arr(<<Funds1, Funds2>>)]],
     [cashFunds |-> [value |-> Arr(<<Funds2>>)], status |-> Num(1), message |-> Str("denied")],
     [cashFunds |-> [value |-> Arr(<<>>)], portfolio |-> [value |-> Arr(<<>>)]],
     [cashFunds |-> [value |-> Arr(<<Position1>>)]],
     [cashFunds |-> [name |-> Str("cashFunds")], portfolio |-> [name |-> Str("portfolio")]],
     [cashFunds |-> Str("none"), portfolio |-> Str("none")],
     [portfolio |-> [value |-> Arr(<<Position1>>)]],
     [portfolio |-> [value |-> Arr(<<Position1, Position1>>)],
      status |-> Num(1), message |-> Str("denied")],
     [status |-> Num(1), message |-> Str("denied")]}

OrderOptions ==
    {[orderType |-> Num(2), productSymbol |-> Str("AAPL"), size |-> Num(1)],
     [orderType |-> Num(0), productSymbol |-> Str("AAPL"), productType |-> Num(2),
      size |-> Num(5), timeType |-> Num(3), price |-> Num(10)],
     [orderType |-> Num(1), productSymbol |-> Str("NFLX"), size |-> Num(2),
      price |-> Num(10), stopPrice |-> Num(9)]}

SearchOptions ==
    {[text |-> Str("AAPL"), limit |-> Num(1)],
     [text |-> Str("AAPL"), productType |-> Num(2), sortColumn |-> Str("name"),
      sortType |-> Str("asc"), limit |-> Num(3), offset |-> Num(1)],
     [text |-> Str("AAPL"), sortColumn |-> Null, sortType |-> Str("desc")],
     [text |-> Str("NFLX"), productType |-> Null, limit |-> Null, sortType |-> Str("asc")]}

DataOptions == {<<>>, <<<<"portfolio", Num(0)>>, <<"cashFunds", Num(0)>>>>}

World ==
    [orderOptions |-> OrderOptions, searchOptions |-> SearchOptions,
     dataOptions |-> DataOptions, searchBodies |-> SearchBodies,
     checkBodies |-> CheckBodies, confirmBodies |-> ConfirmBodies,
     dataBodies |-> DataBodies, setCookieHeaders |-> SetCookieHeaders,
     clientBodies |-> ClientBodies]

(***************************************************************************)
(* The operations other than login, one run at a time.                     *)
(***************************************************************************)
Buy(E) ==
    /\ ~InFlight(opRun)
    /\ \E o \in E.orderOptions : opRun' = OrderCall(session, "buy", o)
    /\ UNCHANGED <<session, loginRun, twinRun, probe>>

Sell(E) ==
    /\ ~InFlight(opRun)
    /\ \E o \in E.orderOptions : opRun' = OrderCall(session, "sell", o)
    /\ UNCHANGED <<session, loginRun, twinRun, probe>>

SearchResponse(E) ==
    /\ opRun.pc = "searching"
    /\ \E result \in E.searchBodies : opRun' = OrderSearched(opRun, session, result)
    /\ UNCHANGED <<session, loginRun, twinRun, probe>>

CheckResponse(E) ==
    /\ opRun.pc = "checking"
    /\ \E res \in E.checkBodies : opRun' = OrderChecked(opRun, session, res)
    /\ UNCHANGED <<session, loginRun, twinRun, probe>>

ConfirmResponse(E) ==
    /\ opRun.pc = "confirming"
    /\ \E res \in E.confirmBodies : opRun' = OrderConfirmed(opRun, res)
    /\ UNCHANGED <<session, loginRun, twinRun, probe>>

SearchProduct(E) ==
    /\ ~InFlight(opRun)
    /\ \E o \in E.searchOptions :
        opRun' = ReadCall("searchProduct", o, searchProduct(session, o))
    /\ UNCHANGED <<session, loginRun, twinRun, probe>>

GetData(E) ==
    /\ ~InFlight(opRun)
    /\ \E o \in E.dataOptions : opRun' = ReadCall("getData", o, getData(session, o))
    /\ UNCHANGED <<session, loginRun, twinRun, probe>>

GetCashFunds ==
    /\ ~InFlight(opRun)
    /\ opRun' = ReadCall("getCashFunds", <<>>,
                         getData(session, <<<<"cashFunds", Num(0)>>>>))
    /\ UNCHANGED <<session, loginRun, twinRun, probe>>

GetPortfolio ==
    /\ ~InFlight(opRun)
    /\ opRun' = ReadCall("getPortfolio", <<>>,
                         getData(session, <<<<"portfolio", Num(0)>>>>))
    /\ UNCHANGED <<session, loginRun, twinRun, probe>>

ReadResponse(E) ==
    /\ opRun.pc = "fetching"
    /\ \E data \in (IF opRun.op = "searchProduct" THEN E.searchBodies ELSE E.dataBodies) :
        opRun' = ReadSettled(opRun, data)
    /\ UNCHANGED <<session, loginRun, twinRun, probe>>

\* A failure of the transport that also drops the session token.
OpFailureLogout ==
    /\ InFlight(opRun)
    /\ \E e \in TransportFailures : opRun' = Reject(opRun, Failure(e), e)
    /\ session' = [session EXCEPT !.id = Undef]
    /\ UNCHANGED <<loginRun, twinRun, probe>>

\* fetch() of the request in flight rejects, or its body is not JSON.
OpFailure ==
    /\ InFlight(opRun)
    /\ \E e \in TransportFailures : opRun' = Reject(opRun, Failure(e), e)
    /\ UNCHANGED <<session, loginRun, twinRun, probe>>

OrderNext(E) ==
    Buy(E) \/ Sell(E) \/ SearchResponse(E) \/ CheckResponse(E) \/ ConfirmResponse(E)

ReadNext(E) ==
    SearchProduct(E) \/ GetData(E) \/ GetCashFunds \/ GetPortfolio \/ ReadResponse(E)

OpNext(E) == OrderNext(E) \/ ReadNext(E) \/ OpFailure

(***************************************************************************)
(* buy and sell side by side: both are called with the same options and    *)
(* each response of the server is handed to both.                          *)
(***************************************************************************)
TwinCall(E) ==
    /\ ~InFlight(opRun) /\ ~InFlight(twinRun)
    /\ \E o \in E.orderOptions :
        /\ opRun' = OrderCall(session, "buy", o)
        /\ twinRun' = OrderCall(session, "sell", o)
    /\ UNCHANGED <<session, loginRun, probe>>

TwinSearchResponse(E) ==
    /\ opRun.pc = "searching"
    /\ \E result \in E.searchBodies :
        /\ opRun' = OrderSearched(opRun, session, result)
        /\ twinRun' = IF twinRun.pc = "searching"
                      THEN OrderSearched(twinRun, session, result) ELSE twinRun
    /\ UNCHANGED <<session, loginRun, probe>>

TwinCheckResponse(E) ==
    /\ opRun.pc = "checking"
    /\ \E res \in E.checkBodies :
        /\ opRun' = OrderChecked(opRun, session, res)
        /\ twinRun' = IF twinRun.pc = "checking"
                      THEN OrderChecked(twinRun, session, res) ELSE twinRun
    /\ UNCHANGED <<session, loginRun, probe>>

TwinConfirmResponse(E) ==
    /\ opRun.pc = "confirming"
    /\ \E res \in E.confirmBodies :
        /\ opRun' = OrderConfirmed(opRun, res)
        /\ twinRun' = IF twinRun.pc = "confirming"
                      THEN OrderConfirmed(twinRun, res) ELSE twinRun
    /\ UNCHANGED <<session, loginRun, probe>>

TwinFailure ==
    /\ InFlight(opRun)
    /\ \E e \in TransportFailures :
        /\ opRun' = Reject(opRun, Failure(e), e)
        /\ twinRun' = IF twinRun.pc = opRun.pc
                      THEN Reject(twinRun, Failure(e), e) ELSE twinRun
    /\ UNCHANGED <<session, loginRun, probe>>

(***************************************************************************)
(* The success check on its own: on every decoded write response.          *)
(***************************************************************************)
Statuses == {Undef, Null, Num(0), Num(1), Num(3), Str("0"), Str("")}
Messages == {Undef, Str("insufficient funds"), Str(""), Num(4)}
Payloads == {Undef, Str("c1"), Str("o1")}

\* The decoded object with these fields; a field given as Undef is absent.
WriteBody(status, message, payload) ==
    LET v == [status |-> status, message |-> message,
              confirmationId |-> IF payload = Str("c1") THEN payload ELSE Undef,
              orderId |-> IF payload = Str("o1") THEN payload ELSE Undef]
    IN [f \in {g \in DOMAIN v : v[g] # Undef} |-> v[f]]

WriteBodies == {WriteBody(st, m, pl) : st \in Statuses, m \in Messages, pl \in Payloads}

ApplyCheckSuccess ==
    /\ "out" \notin DOMAIN probe
    /\ probe' = [res |-> probe.res, out |-> checkSuccess(probe.res)]
    /\ UNCHANGED <<session, loginRun, opRun, twinRun>>

Init ==
    /\ session \in create
    /\ loginRun = IdleRun
    /\ opRun = IdleRun
    /\ twinRun = IdleRun
    /\ probe = Undef

InitSuccess ==
    /\ session \in create
    /\ loginRun = IdleRun
    /\ opRun = IdleRun
    /\ twinRun = IdleRun
    /\ probe \in [res : WriteBodies]

\* The operations of a client whose session is the one create() made.
NextOps == OpNext(World)

SpecOps == Init /\ [][NextOps]_vars

\* Every request in flight is answered in the end: by a response or by a
\* failure of the transport.
Answered ==
    \/ SearchResponse(World) \/ CheckResponse(World) \/ ConfirmResponse(World)
    \/ ReadResponse(World) \/ OpFailure

SpecOpsAnswered == Init /\ [][NextOps]_vars /\ WF_vars(Answered)

\* login alone.
NextLogin == LoginNext(World)

SpecLogin == Init /\ [][NextLogin]_vars

\* buy and sell, called together and answered alike.
NextTwin ==
    \/ TwinCall(World) \/ TwinSearchResponse(World) \/ TwinCheckResponse(World)
    \/ TwinConfirmResponse(World) \/ TwinFailure

SpecTwin == Init /\ [][NextTwin]_vars

\* The success check applied to each write response.
NextSuccess == ApplyCheckSuccess

SpecSuccess == InitSuccess /\ [][NextSuccess]_vars

\* A small world for the runs that race a login.
Few ==
    [orderOptions |-> {[orderType |-> Num(2), productSymbol |-> Str("AAPL"), size |-> Num(1)]},
     searchOptions |-> {[text |-> Str("AAPL"), limit |-> Num(1)]},
     dataOptions |-> {<<>>},
     searchBodies |-> {[data |-> Arr(<<>>)], [data |-> Arr(<<Product1>>)]},
     checkBodies |-> {[status |-> Num(0), confirmationId |-> Str("c1")],
                      [status |-> Num(1), message |-> Str("insufficient funds")]},
     confirmBodies |-> {[status |-> Num(0), orderId |-> Str("o1")],
                        [status |-> Num(1), message |-> Str("insufficient funds")]},
     dataBodies |-> {[cashFunds |-> [value |-> Arr(<<Funds2>>)],
                      portfolio |-> [value |-> Arr(<<Position1>>)]],
                     [status |-> Num(1), message |-> Str("denied")]},
     setCookieHeaders |-> {Null, SetCookie(<<<<"JSESSIONID", "t1">>, <<"Path", "/">>>>)},
     clientBodies |-> {[intAccount |-> Num(7)], [id |-> Num(1)]}]

\* The client as its caller is asked to drive it: no other operation is in
\* flight while a login is, and no login while another operation is.
LoginSerial == ~InFlight(opRun) /\ Login
BuySerial == ~InFlight(loginRun) /\ Buy(Few)
SellSerial == ~InFlight(loginRun) /\ Sell(Few)
SearchProductSerial == ~InFlight(loginRun) /\ SearchProduct(Few)
GetDataSerial == ~InFlight(loginRun) /\ GetData(Few)
GetCashFundsSerial == ~InFlight(loginRun) /\ GetCashFunds
GetPortfolioSerial == ~InFlight(loginRun) /\ GetPortfolio

NextSerial ==
    \/ LoginSerial \/ LoginTransportError \/ LoginResponse(Few)
    \/ ClientFailure \/ ClientResponse(Few)
    \/ BuySerial \/ SellSerial \/ SearchResponse(Few) \/ CheckResponse(Few)
    \/ ConfirmResponse(Few)
    \/ SearchProductSerial \/ GetDataSerial \/ GetCashFundsSerial
    \/ GetPortfolioSerial \/ ReadResponse(Few)
    \/ OpFailure

SpecSerial == Init /\ [][NextSerial]_vars

\* The client: login and one other operation at a time, interleaved.
Next == LoginNext(Few) \/ OpNext(Few)

Spec == Init /\ [][Next]_vars

(***************************************************************************)
(* The properties                                                          *)
(***************************************************************************)
OrderOps == {"buy", "sell"}
ReadOps == {"searchProduct", "getData", "getCashFunds", "getPortfolio"}

IsOrderRun(run) == run.pc # "idle" /\ run.op \in OrderOps
IsReadRun(run) == run.pc # "idle" /\ run.op \in ReadOps

\* The run's i-th request was answered with a decoded JSON body.
JsonAt(run, i) == i <= Len(run.resps) /\ run.resps[i].kind = "json"
BodyAt(run, i) == run.resps[i].body

NonEmptyData(result) ==
    IsArray(Get(result, "data")) /\ Len(Get(result, "data").items) > 0

\* The value of a member of a JSON text, undefined when it has none.
Member(json, key) ==
    LET idx == {i \in 1..Len(json.members) : json.members[i][1] = key}
    IN IF idx = {} THEN Undef ELSE json.members[CHOOSE i \in idx : TRUE][2]

MemberKeys(json) == {json.members[i][1] : i \in 1..Len(json.members)}

\* The JSON text is the OrderRequest of this call for this product.
IsOrderRequest(json, op, o, product) ==
    /\ MemberKeys(json) \subseteq
          {"buysell", "orderType", "productId", "size", "timeType", "price", "stopPrice"}
    /\ Member(json, "buysell") = (IF op = "buy" THEN ActionsBuy ELSE ActionsSell)
    /\ Member(json, "productId") = Get(product, "id")
    /\ \A k \in {"orderType", "size", "price", "stopPrice"} : Member(json, k) = Get(o, k)
    /\ Member(json, "timeType") =
          (IF "timeType" \in DOMAIN o THEN o.timeType ELSE TimeTypesDay)

\* The run went through search, check and confirm and all three succeeded.
AllSucceeded(run) ==
    /\ IsOrderRun(run)
    /\ Len(run.resps) = 3
    /\ JsonAt(run, 1) /\ NonEmptyData(BodyAt(run, 1))
    /\ JsonAt(run, 2) /\ Get(BodyAt(run, 2), "status") = Num(0)
    /\ Get(BodyAt(run, 2), "confirmationId") # Undef
    /\ JsonAt(run, 3) /\ Get(BodyAt(run, 3), "status") = Num(0)
    /\ Get(BodyAt(run, 3), "orderId") # Undef

\* C1: when search returns a non-empty data sequence, check answers status 0
\* with a confirmationId and confirm answers status 0 with an orderId, buy
\* (sell) resolves to the record holding exactly that orderId, and the body
\* posted to confirm is the body posted to check: the OrderRequest built from
\* the first search result's id and the caller's options.
C1_OrderPlaced ==
    AllSucceeded(opRun) =>
        /\ opRun.promise = Resolved([orderId |-> BodyAt(opRun, 3).orderId])
        /\ Len(opRun.reqs) = 3
        /\ opRun.reqs[3].body = opRun.reqs[2].body
        /\ IsOrderRequest(opRun.reqs[2].body, opRun.op, opRun.opts,
                          BodyAt(opRun, 1).data.items[1])

C1_Witness ==
    /\ AllSucceeded(opRun)
    /\ opRun.op = "buy"
    /\ "stopPrice" \in DOMAIN opRun.opts
    /\ Len(BodyAt(opRun, 1).data.items) = 2
    /\ opRun.promise = Resolved([orderId |-> Str("o1")])

\* C2: when the search response's data is empty or is no sequence, buy
\* (sell) fails with the 'Product not found' error and the run issues no
\* check and no confirm request.
C2_ProductNotFound ==
    (IsOrderRun(opRun) /\ JsonAt(opRun, 1) /\ ~NonEmptyData(BodyAt(opRun, 1))) =>
        /\ opRun.promise =
              Rejected(Error("returnFirstProductResult", Str("Product not found")))
        /\ Len(opRun.reqs) = 1
        /\ opRun.reqs[1].endpoint = "/product_search/secure/v4/product/lookup"

C2_Witness ==
    /\ IsOrderRun(opRun) /\ opRun.op = "sell"
    /\ JsonAt(opRun, 1) /\ BodyAt(opRun, 1) = [data |-> Arr(<<>>)]
    /\ opRun.promise.state = "rejected"

\* The check response of the run has a status other than 0.
CheckRefused(run) ==
    IsOrderRun(run) /\ JsonAt(run, 2) /\ Get(BodyAt(run, 2), "status") # Num(0)

\* The run failed in the success check and issued i requests in all.
FailedAfter(run, i) ==
    /\ run.promise.state = "rejected"
    /\ run.promise.error.name = "Error"
    /\ run.promise.error.site = "checkSuccess"
    /\ Len(run.reqs) = i

\* The text an Error is given for a message: the message itself when it
\* is a string, nothing when it is absent, its decimal form when a number.
MessageText(m) ==
    CASE TypeOf(m) = "string" -> m.str
      [] TypeOf(m) = "number" -> NatToString(m.num)
      [] OTHER -> ""

\* C3, as stated: a check response with a status other than 0 makes buy
\* (sell) fail with an error carrying exactly that response's message field,
\* and no confirm request is issued.
C3_AsStated ==
    CheckRefused(opRun) =>
        /\ FailedAfter(opRun, 2)
        /\ Str(opRun.promise.error.message) = Get(BodyAt(opRun, 2), "message")

\* C3, amended: a check response with a status other than 0 makes buy
\* (sell) fail with an error whose message is the text of that response's
\* message field (the field itself when it is a string, the empty string
\* when the response has none), and no confirm request is issued.
C3_CheckRefused ==
    CheckRefused(opRun) =>
        /\ FailedAfter(opRun, 2)
        /\ opRun.promise.error.message = MessageText(Get(BodyAt(opRun, 2), "message"))

C3_Witness ==
    /\ CheckRefused(opRun)
    /\ opRun.op = "buy"
    /\ BodyAt(opRun, 2) = [status |-> Num(1), message |-> Str("insufficient funds")]
    /\ opRun.promise.state = "rejected"
    /\ opRun.promise.error.message = "insufficient funds"

\* Check succeeded and the confirm response has a status other than 0.
ConfirmRefused(run) ==
    /\ IsOrderRun(run)
    /\ JsonAt(run, 2) /\ Get(BodyAt(run, 2), "status") = Num(0)
    /\ JsonAt(run, 3) /\ Get(BodyAt(run, 3), "status") # Num(0)

\* C4, as stated: a confirm response with a status other than 0, after a
\* check that succeeded, makes buy (sell) fail with an error carrying exactly
\* the confirm response's message field; the run yields no orderId and has
\* issued its last request.
C4_AsStated ==
    ConfirmRefused(opRun) =>
        /\ FailedAfter(opRun, 3)
        /\ ~InFlight(opRun)
        /\ Str(opRun.promise.error.message) = Get(BodyAt(opRun, 3), "message")

\* C4, amended: ... fail with an error whose message is the text of the
\* confirm response's message field (the field itself when it is a string,
\* the empty string when the response has none); the run yields no orderId
\* and, being settled with three requests issued, issues no further one.
C4_ConfirmRefused ==
    ConfirmRefused(opRun) =>
        /\ FailedAfter(opRun, 3)
        /\ ~InFlight(opRun)
        /\ opRun.promise.error.message = MessageText(Get(BodyAt(opRun, 3), "message"))

C4_Witness ==
    /\ ConfirmRefused(opRun)
    /\ BodyAt(opRun, 3) =
          [status |-> Num(3), message |-> Str("market closed"), orderId |-> Str("o1")]
    /\ opRun.promise.state = "rejected"
    /\ opRun.promise.error.message = "market closed"

\* The success check has been applied to the response under test.
Probed == "out" \in DOMAIN probe

\* C5, as stated: the success check returns a response whose status is the
\* number 0 unchanged, and for every other status (absent or not a number
\* included) throws an error whose message is exactly the response's message
\* field.
C5_AsStated ==
    Probed =>
        IF Get(probe.res, "status") = Num(0)
        THEN probe.out = Returned(probe.res)
        ELSE /\ ~probe.out.ok
             /\ Str(probe.out.error.message) = Get(probe.res, "message")

\* C5, amended: ... and for every other status throws an error whose message
\* is the text of the response's message field: the field itself when it is
\* a string, the empty string when the response has none, its decimal form
\* when it is a number.
C5_SuccessCheck ==
    Probed =>
        IF Get(probe.res, "status") = Num(0)
        THEN probe.out = Returned(probe.res)
        ELSE /\ ~probe.out.ok
             /\ probe.out.error.name = "Error"
             /\ probe.out.error.message = MessageText(Get(probe.res, "message"))

C5_Witness ==
    /\ Probed
    /\ probe.res = [status |-> Str("0"), message |-> Str("insufficient funds"),
                    orderId |-> Str("o1")]
    /\ ~probe.out.ok
    /\ probe.out.error.message = "insufficient funds"

\* The cookie a login response carries as the session token.
TokenOf(h) == parseCookies(h, "JSESSIONID")

\* The securityCheck request of the login run was answered (with headers).
LoginAnswered(run) == Len(run.resps) >= 1 /\ "kind" \notin DOMAIN run.resps[1]

\* C6, as stated: whenever login resolves, the session holds a token and an
\* accountId: the token of the login response's cookie and the accountId of
\* the profile response, whatever profile response let login resolve.
C6_AsStated ==
    loginRun.promise.state = "resolved" =>
        /\ session.id # Undef
        /\ session.id = TokenOf(loginRun.resps[1])
        /\ loginRun.reqs[2].sessionId = ToString(session.id)
        /\ session.account # Undef
        /\ session.account = Get(BodyAt(loginRun, 2), "intAccount")

\* C7: a login response without a session-token cookie (or with an empty
\* one) makes login fail with the 'Login error' error; the run issues no
\* profile request and the session's account is what it was at the call.
C7_NoCookie ==
    (LoginAnswered(loginRun) /\ Falsy(TokenOf(loginRun.resps[1]))) =>
        /\ loginRun.promise = Rejected(Error("login", Str("Login error")))
        /\ loginRun.reqs = <<LoginRequest>>
        /\ session.account = loginRun.atCall.account

C7_Witness ==
    /\ LoginAnswered(loginRun)
    /\ loginRun.resps[1] = SetCookie(<<<<"Path", "/">>>>)
    /\ loginRun.promise.state = "rejected"
    /\ loginRun.atCall.account = Num(7)

\* The login run obtained a token and its profile step then failed: the
\* request failed, the body was no JSON, or it had no intAccount field.
ProfileFailed(run) ==
    /\ Len(run.resps) = 2
    /\ \/ run.resps[2].kind = "failure"
       \/ "intAccount" \notin DOMAIN BodyAt(run, 2)

\* C8, as stated: when login obtained a token and the profile step fails,
\* login rejects (with that failure, when the step threw one) and the
\* session is left with the token set and the accountId absent.
C8_AsStated ==
    ProfileFailed(loginRun) =>
        /\ loginRun.promise.state = "rejected"
        /\ loginRun.resps[2].kind = "failure"
              => loginRun.promise.error = loginRun.resps[2].error
        /\ session.id = TokenOf(loginRun.resps[1])
        /\ session.account = Undef

\* A response of the run, to a check or a confirm request, was refused by
\* the success check and the run rejected with what the check threw.
WritesChecked(run) ==
    \A i \in {2, 3} :
        (JsonAt(run, i) /\ Get(BodyAt(run, i), "status") # Num(0)) =>
            /\ Len(run.resps) = i
            /\ run.promise = Rejected(checkSuccess(BodyAt(run, i)).error)

\* No rejection of the run comes from the success check.
NotRefused(run) ==
    run.promise.state = "rejected" => run.promise.error.site # "checkSuccess"

\* C9: the success check gates the response of every check and confirm
\* request and of no read: getData and searchProduct resolve with whatever
\* body was decoded, getCashFunds, getPortfolio and the search step of buy
\* and sell never fail in the success check, whatever the body's status.
C9_OnlyWritesChecked ==
    /\ IsOrderRun(opRun) =>
          /\ WritesChecked(opRun)
          /\ Len(opRun.resps) = 1 => NotRefused(opRun)
    /\ (IsReadRun(opRun) /\ JsonAt(opRun, 1)) =>
          /\ NotRefused(opRun)
          /\ opRun.op \in {"getData", "searchProduct"}
                => opRun.promise = Resolved(BodyAt(opRun, 1))
          /\ (opRun.op = "getCashFunds"
                /\ IsArray(Get(Get(BodyAt(opRun, 1), "cashFunds"), "value"))
                /\ opRun.promise.state = "rejected")
                => opRun.promise.error.name = "TypeError"
          /\ (opRun.op = "getPortfolio"
                /\ IsArray(Get(Get(BodyAt(opRun, 1), "portfolio"), "value")))
                => opRun.promise.state = "resolved"

C9_Witness ==
    /\ IsReadRun(opRun) /\ opRun.op = "getCashFunds"
    /\ JsonAt(opRun, 1)
    /\ Get(BodyAt(opRun, 1), "status") = Num(1)
    /\ opRun.promise.state = "resolved"

\* A request without its body.
WithoutBody(req) == [f \in DOMAIN req \ {"body"} |-> req[f]]

\* Two requests that differ at most in the action of the order they post,
\* which is buy in the first and sell in the second.
SameButAction(b, sl) ==
    /\ WithoutBody(b) = WithoutBody(sl)
    /\ "body" \in DOMAIN b =>
          /\ Len(b.body.members) = Len(sl.body.members)
          /\ \A i \in 1..Len(b.body.members) :
                IF b.body.members[i][1] = "buysell"
                THEN /\ b.body.members[i][2] = ActionsBuy
                     /\ sl.body.members[i] = <<"buysell", ActionsSell>>
                ELSE b.body.members[i] = sl.body.members[i]

\* C10: called with the same options, on the same session and answered
\* alike, buy and sell issue the same requests, but for the action of the
\* order they post, and end alike.
C10_SameWorkflow ==
    (IsOrderRun(opRun) /\ IsOrderRun(twinRun)) =>
        /\ opRun.op = "buy" /\ twinRun.op = "sell"
        /\ twinRun.pc = opRun.pc
        /\ twinRun.opts = opRun.opts
        /\ twinRun.resps = opRun.resps
        /\ twinRun.promise = opRun.promise
        /\ Len(twinRun.reqs) = Len(opRun.reqs)
        /\ \A i \in 1..Len(opRun.reqs) : SameButAction(opRun.reqs[i], twinRun.reqs[i])

C10_Witness ==
    /\ IsOrderRun(opRun) /\ IsOrderRun(twinRun)
    /\ "timeType" \notin DOMAIN opRun.opts
    /\ Len(twinRun.reqs) = 3
    /\ twinRun.promise = Resolved([orderId |-> Str("o2")])
    /\ opRun.promise = Resolved([orderId |-> Str("o2")])

\* The token and the account a request carries, wherever its URL has them.
TokensIn(req) ==
    {req[f] : f \in DOMAIN req \cap {"jsessionid", "sessionId"}}
AccountsIn(req) ==
    {req[f] : f \in DOMAIN req \cap {"intAccount", "account"}}

\* The request carries this token and this account and no other.
Carries(req, id, account) ==
    /\ TokensIn(req) = {ToString(id)}
    /\ AccountsIn(req) = {ToString(account)}

AuthEndpoints == {"/login/securityCheck", "/pa/secure/client"}

\* C11: a client created with a session token and an account, on which
\* login was never called, issues every request of its read and order
\* operations with exactly that token and that account; none of them is a
\* login or profile request.
C11_PreSeeded ==
    (loginRun.pc = "idle" /\ session.id # Undef /\ session.account # Undef) =>
        /\ session = [id |-> Str("t0"), account |-> Str("5")]
        /\ \A i \in 1..Len(opRun.reqs) :
              /\ Carries(opRun.reqs[i], Str("t0"), Str("5"))
              /\ TokensIn(opRun.reqs[i]) = {"t0"}
              /\ AccountsIn(opRun.reqs[i]) = {"5"}
              /\ opRun.reqs[i].endpoint \notin AuthEndpoints

C11_Witness ==
    /\ loginRun.pc = "idle"
    /\ session = [id |-> Str("t0"), account |-> Str("5")]
    /\ IsOrderRun(opRun) /\ Len(opRun.reqs) = 3
    /\ opRun.promise.state = "resolved"

\* The entries of a decoded getData body's cashFunds, when they are a list.
HasCashFunds(data) == IsArray(Get(Get(data, "cashFunds"), "value"))
CashEntries(data) == Get(Get(data, "cashFunds"), "value").items

\* The entry holds an inner name/value list.
HasPairs(entry) == IsArray(Get(entry, "value"))
PairsOf(entry) == Get(entry, "value").items
NameAt(pairs, j) == ToString(Get(pairs[j], "name"))

\* The mapping is the one of this name/value list: every name but handling
\* and currencyCode is a key, nothing else is, and a name's value is the
\* value of the (last) pair that has this name.
MapsPairs(mapping, pairs) ==
    /\ DOMAIN mapping =
          {NameAt(pairs, j) : j \in 1..Len(pairs)} \ {"handling", "currencyCode"}
    /\ \A j \in 1..Len(pairs) :
          (/\ NameAt(pairs, j) \notin {"handling", "currencyCode"}
           /\ \A k \in (j + 1)..Len(pairs) : NameAt(pairs, k) # NameAt(pairs, j))
          => mapping[NameAt(pairs, j)] = Get(pairs[j], "value")

IsSearchCall(run) == IsReadRun(run) /\ run.op = "searchProduct"
QueryNames(run) == {run.reqs[1].params[i][1] : i \in 1..Len(run.reqs[1].params)}
QueryValues(run, name) ==
    {run.reqs[1].params[i][2] :
        i \in {k \in 1..Len(run.reqs[1].params) : run.reqs[1].params[k][1] = name}}

\* The caller gave the option a value.
Supplied(o, key) == Get(o, key) \notin {Undef, Null}

\* The text of the option, or of its default when it has none.
SentOr(o, key, default) ==
    IF Supplied(o, key) THEN ToString(Get(o, key)) ELSE default

NoEmptyParameter(run) ==
    \A i \in 1..Len(run.reqs[1].params) :
        run.reqs[1].params[i][2] \notin {"", "null", "undefined"}

WorkflowEndpoints ==
    <<"/product_search/secure/v4/product/lookup",
      "/trading/secure/v5/checkOrder",
      "/trading/secure/v5/order/">>

RequestsTo(run, endpoint) ==
    Cardinality({i \in 1..Len(run.reqs) : run.reqs[i].endpoint = endpoint})

\* The run's i-th request was answered by a failure: of the transport, or
\* a response the step after it did not accept.
FailedAt(run, i) ==
    /\ i <= Len(run.resps)
    /\ \/ ~JsonAt(run, i)
       \/ i = 1 /\ ~NonEmptyData(BodyAt(run, 1))
       \/ i \in {2, 3} /\ Get(BodyAt(run, i), "status") # Num(0)

\* C15: a run of buy or sell issues at most one search, one check and one
\* confirm request and no other, whatever the responses are; the
\* confirmationId of its check response is posted at most once; and after
\* a failed step it issues no request at all.
C15_AtMostOnce ==
    IsOrderRun(opRun) =>
        /\ \A k \in 1..3 : RequestsTo(opRun, WorkflowEndpoints[k]) <= 1
        /\ \A i \in 1..Len(opRun.reqs) :
              \E k \in 1..3 : opRun.reqs[i].endpoint = WorkflowEndpoints[k]
        /\ JsonAt(opRun, 2) =>
              Cardinality({i \in 1..Len(opRun.reqs) :
                  /\ "confirmationId" \in DOMAIN opRun.reqs[i]
                  /\ opRun.reqs[i].confirmationId =
                        ToString(Get(BodyAt(opRun, 2), "confirmationId"))}) <= 1
        /\ \A i \in 1..Len(opRun.resps) :
              FailedAt(opRun, i) =>
                  /\ Len(opRun.reqs) = i
                  /\ Len(opRun.resps) = i
                  /\ opRun.promise.state = "rejected"

C15_Witness ==
    /\ IsOrderRun(opRun) /\ Len(opRun.reqs) = 3
    /\ FailedAt(opRun, 3)
    /\ opRun.promise.state = "rejected"

\* The states of a run of buy or sell.
Searching(run) == IsOrderRun(run) /\ run.pc = "searching"
Checking(run) == IsOrderRun(run) /\ run.pc = "checking"
Confirming(run) == IsOrderRun(run) /\ run.pc = "confirming"
Done(run) ==
    /\ IsOrderRun(run) /\ run.pc = "settled"
    /\ run.promise.state = "resolved"
    /\ DOMAIN run.promise.value = {"orderId"}
Failed(run) ==
    /\ IsOrderRun(run) /\ run.pc = "settled"
    /\ run.promise.state = "rejected"
    /\ "message" \in DOMAIN run.promise.error

\* The next step of the run in flight can be its failure.
CanFail == ENABLED (OpFailure /\ Failed(opRun'))

\* A step from a terminal state is a new call: the run that ended does not
\* move again.
StaysTerminal ==
    (Done(opRun) \/ Failed(opRun)) =>
        \/ opRun' = opRun
        \/ /\ opRun'.resps = <<>> /\ Len(opRun'.reqs) = 1
           /\ opRun'.promise = Pending

\* C16: when every request is answered in the end, every run of buy or
\* sell ends Done or Failed and never both or neither; it can fail from
\* Searching, from Checking and from Confirming; and a run that has ended
\* stays as it ended.
C16_Terminates ==
    /\ [](IsOrderRun(opRun) => <>(Done(opRun) \/ Failed(opRun)))
    /\ [](IsOrderRun(opRun) =>
            /\ Searching(opRun) \/ Checking(opRun) \/ Confirming(opRun)
               \/ Done(opRun) \/ Failed(opRun)
            /\ ~(Done(opRun) /\ Failed(opRun))
            /\ (Searching(opRun) \/ Checking(opRun) \/ Confirming(opRun)) => CanFail)
    /\ [][StaysTerminal]_vars

C16_Witness ==
    /\ Failed(opRun)
    /\ Len(opRun.reqs) = 2 /\ Len(opRun.resps) = 2
    /\ opRun.resps[2].kind # "json"

\* C17: only login writes the session: a step of searchProduct, buy, sell,
\* getData, getCashFunds or getPortfolio, be it a call, a response or a
\* failure, leaves the token and the account as they were, and so does
\* every step that is not a step of login.
C17_OnlyLoginWrites ==
    [][(opRun' # opRun \/ loginRun' = loginRun) =>
          /\ session'.id = session.id
          /\ session'.account = session.account]_vars

C17_Witness ==
    /\ loginRun.promise.state = "resolved"
    /\ session = [id |-> Str("t1"), account |-> Num(7)]
    /\ Failed(opRun) /\ Len(opRun.reqs) = 3
    /\ \A i \in 1..3 : Carries(opRun.reqs[i], Str("t1"), Num(7))

\* The step is the arrival of a login response that carries this token.
LoginBrought(token) ==
    /\ loginRun.pc = "securityCheck"
    /\ Len(loginRun'.resps) = 1
    /\ "kind" \notin DOMAIN loginRun'.resps[1]
    /\ TokenOf(loginRun'.resps[1]) = token
    /\ token # Undef

\* C18, as stated: the session's token is never destroyed: once the
\* session holds a token, every step leaves it holding one, the steps of a
\* login that fails included, and a step that changes the token is the
\* arrival of a login response carrying the new token.
C18_AsStated ==
    [][session.id # Undef =>
          /\ session'.id # Undef
          /\ session'.id # session.id => LoginBrought(session'.id)]_vars

\* The step issues a request of an operation other than login: the request
\* is the last of the run's requests after the step.
IssuesRequest == opRun' # opRun /\ InFlight(opRun')
Issued == opRun'.reqs[Len(opRun'.reqs)]

\* C19, as stated: with login serialized against every other operation,
\* a request issued once a login has resolved carries the token that the
\* most recent resolved login obtained and the account that same login
\* resolved.
C19_AsStated ==
    [][(IssuesRequest /\ LastResolved(loginRun) # Undef) =>
          Carries(Issued, LastResolved(loginRun).id,
                  LastResolved(loginRun).account)]_vars

\* C20: each request of a run of buy or sell carries the token and the
\* account the session holds in the step that issues it, whatever they
\* were when the run started; with a login running beside it, the run's
\* requests carry different tokens, and one of them the new token with the
\* account of before.
C20_SessionAtIssue ==
    [][(IssuesRequest /\ IsOrderRun(opRun')) =>
          /\ Carries(Issued, session.id, session.account)
          /\ Carries(Issued, session'.id, session'.account)
          /\ \A i \in 1..Len(opRun.reqs) :
                i <= Len(opRun'.resps) => opRun'.reqs[i] = opRun.reqs[i]]_vars

C20_Witness ==
    /\ IsOrderRun(opRun) /\ Len(opRun.reqs) = 3
    /\ InFlight(loginRun) \/ loginRun.promise.state = "resolved"
    /\ Carries(opRun.reqs[1], Str("t0"), Str("5"))
    /\ Carries(opRun.reqs[2], Str("t1"), Str("5"))
    /\ Carries(opRun.reqs[3], Str("t1"), Num(7))

====
